---- MODULE Spec2Model ----
\* Merkle commitment layer of risc0/zkp: MerkleTreeProver (prove/merkle.rs),
\* its transcript (WriteIOP / ReadIOP) and the MerkleTreeVerifier that reads it.
\* Digests are modelled as an ideal (injective, domain-separated) hash: a
\* digest is the flat, prefix-free serialisation of the term it was hashed from.
EXTENDS Integers, Sequences, FiniteSets, TLC

\* ---------------------------------------------------------------- bounds
\* rows ranges over 2^0 .. 2^MaxLogRows
MaxLogRows == 2
\* cols ranges over 1 .. MaxCols
MaxCols == 2
\* queries ranges over 1 .. MaxQueries
MaxQueries == 2
\* field elements are 0 .. MaxElem
MaxElem == 1
\* number of draw / prove calls made on one transcript
MaxOps == 2
MaxStream == 8

\* ---------------------------------------------------------------- arithmetic
RECURSIVE Pow2(_)
Pow2(n) == IF n = 0 THEN 1 ELSE 2 * Pow2(n - 1)

\* core::log2_ceil: the least n with 2^n >= x
RECURSIVE Log2From(_, _)
Log2From(x, n) == IF Pow2(n) >= x THEN n ELSE Log2From(x, n + 1)

log2_ceil(x) == Log2From(x, 0)

Min(a, b) == IF a <= b THEN a ELSE b

\* ---------------------------------------------------------------- digests
\* Digest::default()
ZeroDigest == <<0>>

\* the hash suite's row hash: Vec<Elem> -> Digest
HashElemSlice(col) == <<1, Len(col)>> \o col

\* the hash suite's fold: (Digest, Digest) -> Digest
HashPair(a, b) == <<2>> \o a \o b

\* a field element as it sits in the proof stream
ElemItem(v) == <<3, v>>

IsElemItem(it) == it[1] = 3

IsDigestItem(it) == it[1] # 3

\* ---------------------------------------------------------------- MerkleTreeParams
\* top_size: the smallest power of two >= min(queries, rows)
TopSizeOf(rows, queries) == Pow2(log2_ceil(Min(queries, rows)))

LayersShort(rows) == IF rows > 1 THEN log2_ceil(rows) - 1 ELSE 0

\* layers: the node buffer of 2 * rows digests has size 1 << (layers + 1)
LayersOf(rows) == log2_ceil(rows)

MerkleTreeParams_new(rows, cols, queries) ==
  [row_size |-> rows, col_size |-> cols, queries |-> queries,
   layers |-> LayersOf(rows), top_size |-> TopSizeOf(rows, queries)]

\* ---------------------------------------------------------------- HAL
\* element i of column idx of the row-major matrix (0-based idx, i)
MatAt(matrix, k) == matrix[k + 1]

ViewColumnRowMajor(matrix, idx, count, stride) ==
  [i \in 1..count |-> MatAt(matrix, idx * count + (i - 1))]

\* the direct view of column idx (has_unified_memory)
ViewColumn(matrix, idx, count, stride) ==
  [i \in 1..count |-> MatAt(matrix, idx + (i - 1) * stride)]

\* hal.gather_sample(sample, matrix, idx, count, stride) followed by sample.view
gather_sample(matrix, idx, count, stride) ==
  [i \in 1..count |-> MatAt(matrix, idx + (i - 1) * stride)]

HashRowsShifted(nodes, matrix, rows, cols) ==
  [k \in DOMAIN nodes |->
     IF k >= rows
       THEN HashElemSlice(ViewColumn(matrix, ((k - rows) + rows - 1) % rows, cols, rows))
       ELSE nodes[k]]

\* hal.hash_rows(&nodes.slice(rows, rows), matrix): leaf rows + j = hash of column j
hash_rows(nodes, matrix, rows, cols) ==
  [k \in DOMAIN nodes |->
     IF k >= rows
       THEN HashElemSlice(ViewColumn(matrix, k - rows, cols, rows))
       ELSE nodes[k]]

HashFoldLeftOnly(nodes, input_size, output_size) ==
  [k \in DOMAIN nodes |->
     IF k >= output_size /\ k < 2 * output_size
       THEN HashPair(nodes[2 * k], nodes[2 * k])
       ELSE nodes[k]]

\* hal.hash_fold(&nodes, input_size, output_size): the layer [output_size,
\* 2 * output_size) is hashed from the layer [input_size, 2 * input_size)
hash_fold(nodes, input_size, output_size) ==
  [k \in DOMAIN nodes |->
     IF k >= output_size /\ k < 2 * output_size
       THEN HashPair(nodes[2 * k], nodes[2 * k + 1])
       ELSE nodes[k]]

\* ---------------------------------------------------------------- MerkleTreeProver::new
RECURSIVE FoldLayersStopEarly(_, _)
FoldLayersStopEarly(nodes, i) ==
  IF i <= 1 THEN nodes
  ELSE FoldLayersStopEarly(hash_fold(nodes, Pow2(i - 1) * 2, Pow2(i - 1)), i - 1)

\* for i in (0..layers).rev(): hash_fold(&nodes, 2 << i, 1 << i); `i` iterations remain
RECURSIVE FoldLayers(_, _)
FoldLayers(nodes, i) ==
  IF i = 0 THEN nodes
  ELSE FoldLayers(hash_fold(nodes, Pow2(i - 1) * 2, Pow2(i - 1)), i - 1)

MerkleTreeProver_new(mat, rows, cols, queries) ==
  LET p == MerkleTreeParams_new(rows, cols, queries)
      alloc == [k \in 0..(rows * 2 - 1) |-> ZeroDigest]
      leaves == hash_rows(alloc, mat, rows, cols)
      nodes_host == FoldLayers(leaves, p.layers)
  IN [params |-> p, matrix |-> mat, nodes |-> nodes_host, root |-> nodes_host[1]]

\* the outputs of hal.hash_rows(&nodes.slice(rows, rows), matrix)
RowsRange(rows) == rows..(2 * rows - 1)

\* the outputs of hal.hash_fold(&nodes, layer_size * 2, layer_size), layer_size = 1 << i
FoldRange(i) == Pow2(i)..(2 * Pow2(i) - 1)

LayerScheduleForward(layers) == [j \in 1..layers |-> j - 1]

\* the values of i in the order the loop takes them: (0..layers).rev()
LayerSchedule(layers) == [j \in 1..layers |-> layers - j]

\* the construction when it has returned: every call made, every node but the
\* unused nodes[0] written once
BuildReturned(rows, layers) ==
  [phase |-> "built", step |-> layers, pending |-> {},
   writes |-> [k \in 0..(rows * 2 - 1) |-> IF k = 0 THEN 0 ELSE 1]]

\* ---------------------------------------------------------------- transcript
\* the random oracle shared by WriteIOP and ReadIOP: the digests committed so
\* far and the number of draws made since
Rng_new == [pool |-> <<>>, ctr |-> 0]

Rng_mix(rng, digest) == [pool |-> rng.pool \o digest, ctr |-> rng.ctr]

RECURSIVE Weigh(_, _)
Weigh(s, i) == IF i > Len(s) THEN 0 ELSE (i * s[i] + Weigh(s, i + 1)) % 1024

\* rng.random_bits(bits): a deterministic function of the oracle state
Rng_random_bits(rng, bits) == (Weigh(rng.pool, 1) + 5 * rng.ctr) % Pow2(bits)

Rng_step(rng) == [pool |-> rng.pool, ctr |-> rng.ctr + 1]

\* iop.write_field_elem_slice(out)
write_field_elem_slice(stream, out) == stream \o [i \in 1..Len(out) |-> ElemItem(out[i])]

\* iop.write_pod_slice(digests)
write_pod_slice(stream, digests) == stream \o digests

\* ---------------------------------------------------------------- MerkleTreeProver
TopSliceShifted(nds, top_size) == [i \in 1..top_size |-> nds[top_size + i - 2]]

\* &self.nodes[top_size..top_size * 2]
TopSlice(nds, top_size) == [i \in 1..top_size |-> nds[top_size + i - 1]]

CommittedZero(r) == ZeroDigest

\* the digest handed to iop.commit: self.root()
CommittedDigest(r) == r

RowAssertInclusive(idx, row_size) == idx <= row_size

\* assert!(idx < self.params.row_size)
RowAssert(idx, row_size) == idx < row_size

WalkSkipsBoundary(idx, top_size) == idx > 2 * top_size

WalkIntoTop(idx, top_size) == idx >= top_size

\* while idx >= 2 * self.params.top_size
WalkContinues(idx, top_size) == idx >= 2 * top_size

\* the digests the walk of prove writes, starting at heap index idx
RECURSIVE SiblingPath(_, _, _)
SiblingPath(nds, idx, top_size) ==
  IF WalkContinues(idx, top_size)
    THEN LET low_bit == idx % 2
             up == idx \div 2
             other_idx == 2 * up + (1 - low_bit)
         IN <<nds[other_idx]>> \o SiblingPath(nds, up, top_size)
    ELSE <<>>

\* the heap indices the walk of prove reads, starting at heap index idx: at
\* each step the other child of the same parent
RECURSIVE SiblingIndexes(_, _)
SiblingIndexes(idx, top_size) ==
  IF WalkContinues(idx, top_size)
    THEN LET low_bit == idx % 2
             up == idx \div 2
             other_idx == 2 * up + (1 - low_bit)
         IN <<other_idx>> \o SiblingIndexes(up, top_size)
    ELSE <<>>

ProveAppendFresh(stream, out, siblings) ==
  write_pod_slice(write_field_elem_slice(<<>>, out), siblings)

\* what prove adds to the transcript: the column, then the digests of the walk
ProveAppend(stream, out, siblings) ==
  write_pod_slice(write_field_elem_slice(stream, out), siblings)

\* every index the column extraction reads lies inside the matrix buffer
ColumnInBounds(mat, idx, count, stride) ==
  \A i \in 0..(count - 1) : idx + i * stride < Len(mat)

\* ---------------------------------------------------------------- MerkleTreeVerifier
\* the number of fold passes that take top_size digests to one root
VerifierFolds(p) == log2_ceil(p.top_size)

\* MerkleTreeVerifier::new: the top layer read from the stream at pos; the
\* digests sit at [top_size, 2 * top_size) of a heap-style buffer
VerifierTop(stream, pos, p) ==
  LET buf == [k \in 0..(2 * p.top_size - 1) |->
                IF k >= p.top_size THEN stream[pos + 1 + (k - p.top_size)] ELSE ZeroDigest]
  IN FoldLayers(buf, VerifierFolds(p))

\* the stream holds top_size digests at pos
TopReadable(stream, pos, p) ==
  /\ pos + p.top_size <= Len(stream)
  /\ \A i \in 1..p.top_size : IsDigestItem(stream[pos + i])

\* verify stops its walk at the same top boundary as prove
VerifyWalkContinues(idx, top_size) == idx >= 2 * top_size

\* the walk of verify from heap index idx with the running digest cur: one
\* sibling is read per step; the result is the digest at the top boundary
RECURSIVE VerifyWalk(_, _, _, _, _)
VerifyWalk(stream, pos, cur, idx, top_size) ==
  IF VerifyWalkContinues(idx, top_size)
    THEN IF pos + 1 > Len(stream) \/ ~IsDigestItem(stream[pos + 1])
           THEN [ok |-> FALSE, cur |-> cur, idx |-> idx, pos |-> pos]
           ELSE LET other == stream[pos + 1]
                    low_bit == idx % 2
                IN VerifyWalk(stream, pos + 1,
                              IF low_bit = 1 THEN HashPair(other, cur) ELSE HashPair(cur, other),
                              idx \div 2, top_size)
    ELSE [ok |-> TRUE, cur |-> cur, idx |-> idx, pos |-> pos]

\* MerkleTreeVerifier::verify(iop, idx): the result kind, the column and the
\* read position afterwards
verify(stream, pos, vtop, p, idx) ==
  IF pos + p.col_size > Len(stream)
     \/ \E i \in 1..p.col_size : ~IsElemItem(stream[pos + i])
    THEN [res |-> "DecodeError", col |-> <<>>, pos |-> pos]
    ELSE LET out == [i \in 1..p.col_size |-> stream[pos + i][2]]
             w == VerifyWalk(stream, pos + p.col_size, HashElemSlice(out),
                             idx + p.row_size, p.top_size)
         IN IF ~w.ok THEN [res |-> "DecodeError", col |-> <<>>, pos |-> w.pos]
            ELSE IF vtop[w.idx] = w.cur THEN [res |-> "Ok", col |-> out, pos |-> w.pos]
            ELSE [res |-> "InvalidProof", col |-> <<>>, pos |-> w.pos]

\* ---------------------------------------------------------------- inputs
Geometries ==
  [rows : {Pow2(l) : l \in 0..MaxLogRows}, cols : 1..MaxCols, queries : 1..MaxQueries]

\* the matrices built: distinct descending values (as the tests' init_prover
\* does), one value everywhere, and values repeating with period MaxElem + 1
Matrices(rows, cols) ==
  { [k \in 1..(rows * cols) |-> rows * cols - k],
    [k \in 1..(rows * cols) |-> 0],
    [k \in 1..(rows * cols) |-> (k - 1) % (MaxElem + 1)] }

\* iop.proof[manip_idx] ^= 1, on one item of the stream
FlipItem(it) ==
  IF IsElemItem(it) THEN ElemItem(IF it[2] % 2 = 0 THEN it[2] + 1 ELSE it[2] - 1)
  ELSE <<4>> \o it

NoCall == [op |-> "none", idx |-> 0, col |-> <<>>]

\* ---------------------------------------------------------------- state
VARIABLES
  params,    \* MerkleTreeProver.params
  matrix,    \* MerkleTreeProver.matrix
  nodes,     \* MerkleTreeProver.nodes
  root,      \* MerkleTreeProver.root
  build,     \* MerkleTreeProver::new: the call in progress, the outputs it has
             \* still to write, and how many times each node was written
  proof,     \* WriteIOP.proof
  wrng,      \* WriteIOP.rng
  wpc,       \* the writer side: "new", "committed", "panicked", "done"
  wpanic,    \* the panic message of the writer side, "" when none
  wlog,      \* the draws and the proofs made on the writer side, with their results
  wcall,     \* the last call made on the prover
  wpath,     \* the heap indices of the digests the last prove wrote
  manip,     \* what was done to the stream before the reader got it
  r_proof,   \* the stream ReadIOP was built from
  rpos,      \* ReadIOP: the number of items consumed
  rrng,      \* ReadIOP.rng
  top,       \* MerkleTreeVerifier.top
  vroot,     \* MerkleTreeVerifier.root
  vfolds,    \* the fold passes MerkleTreeVerifier::new ran
  rlog,      \* the draws and the verifications made on the reader side, with their results
  rpc,       \* the reader side: "idle", "start", "verify", and how the run ended
  bad        \* the result of the verification made on the wrong row, "" when none

prover == <<params, matrix, nodes, root, build>>
writer == <<proof, wrng, wpc, wpanic, wlog, wcall, wpath>>
reader == <<r_proof, rpos, rrng, top, vroot, vfolds, rlog, rpc, bad>>
vars == <<params, matrix, nodes, root, build, proof, wrng, wpc, wpanic, wlog, wcall, wpath, manip,
          r_proof, rpos, rrng, top, vroot, vfolds, rlog, rpc, bad>>

AssertRowMsg == "assertion failed: idx < self.params.row_size"

\* init_prover and WriteIOP::new
Init ==
  /\ \E g \in Geometries : \E mat \in Matrices(g.rows, g.cols) :
       LET t == MerkleTreeProver_new(mat, g.rows, g.cols, g.queries)
       IN /\ params = t.params
          /\ matrix = t.matrix
          /\ nodes = t.nodes
          /\ root = t.root
          /\ build = BuildReturned(g.rows, t.params.layers)
  /\ proof = <<>>
  /\ wrng = Rng_new
  /\ wpc = "new"
  /\ wpanic = ""
  /\ wlog = <<>>
  /\ wcall = NoCall
  /\ wpath = <<>>
  /\ manip = [kind |-> "unset", pos |-> 0]
  /\ r_proof = <<>>
  /\ rpos = 0
  /\ rrng = Rng_new
  /\ top = <<>>
  /\ vroot = ZeroDigest
  /\ vfolds = 0
  /\ rlog = <<>>
  /\ rpc = "idle"
  /\ bad = ""

\* ---------------------------------------------------------------- construction
\* MerkleTreeProver::new step by step: the node buffer is allocated, and the
\* outputs of one HAL call are written in any order
InitBuild ==
  /\ \E g \in Geometries : \E mat \in Matrices(g.rows, g.cols) :
       LET p == MerkleTreeParams_new(g.rows, g.cols, g.queries)
       IN /\ params = p
          /\ matrix = mat
          /\ nodes = [k \in 0..(g.rows * 2 - 1) |-> ZeroDigest]
          /\ root = ZeroDigest
          /\ build = [phase |-> "rows", step |-> 0, pending |-> RowsRange(g.rows),
                      writes |-> [k \in 0..(g.rows * 2 - 1) |-> 0]]
  /\ proof = <<>>
  /\ wrng = Rng_new
  /\ wpc = "new"
  /\ wpanic = ""
  /\ wlog = <<>>
  /\ wcall = NoCall
  /\ wpath = <<>>
  /\ manip = [kind |-> "unset", pos |-> 0]
  /\ r_proof = <<>>
  /\ rpos = 0
  /\ rrng = Rng_new
  /\ top = <<>>
  /\ vroot = ZeroDigest
  /\ vfolds = 0
  /\ rlog = <<>>
  /\ rpc = "idle"
  /\ bad = ""

\* the outputs the call that follows `step` fold calls has to write
NextPending(step, layers) ==
  IF step < layers THEN FoldRange(LayerSchedule(layers)[step + 1]) ELSE {}

\* hal.hash_rows writes one of its outputs
HashRow(k) ==
  /\ build.phase = "rows"
  /\ k \in build.pending
  /\ nodes' = [nodes EXCEPT
                 ![k] = hash_rows(nodes, matrix, params.row_size, params.col_size)[k]]
  /\ build' = [build EXCEPT !.pending = @ \ {k}, !.writes[k] = @ + 1]
  /\ UNCHANGED <<params, matrix, root, writer, manip, reader>>

\* hal.hash_rows returns: the loop starts, or is skipped when layers = 0
RowsDone ==
  /\ build.phase = "rows"
  /\ build.pending = {}
  /\ build' = [build EXCEPT
                 !.phase = IF params.layers = 0 THEN "view" ELSE "fold",
                 !.step = IF params.layers = 0 THEN 0 ELSE 1,
                 !.pending = NextPending(0, params.layers)]
  /\ UNCHANGED <<params, matrix, nodes, root, writer, manip, reader>>

\* hal.hash_fold writes one of its outputs
FoldNode(k) ==
  /\ build.phase = "fold"
  /\ k \in build.pending
  /\ LET i == LayerSchedule(params.layers)[build.step]
         layer_size == Pow2(i)
     IN nodes' = [nodes EXCEPT ![k] = hash_fold(nodes, layer_size * 2, layer_size)[k]]
  /\ build' = [build EXCEPT !.pending = @ \ {k}, !.writes[k] = @ + 1]
  /\ UNCHANGED <<params, matrix, root, writer, manip, reader>>

\* hal.hash_fold returns: the next iteration of the loop, or its end
FoldDone ==
  /\ build.phase = "fold"
  /\ build.pending = {}
  /\ build' = [build EXCEPT
                 !.phase = IF build.step = params.layers THEN "view" ELSE "fold",
                 !.step = IF build.step = params.layers THEN @ ELSE @ + 1,
                 !.pending = NextPending(build.step, params.layers)]
  /\ UNCHANGED <<params, matrix, nodes, root, writer, manip, reader>>

\* nodes.view, root = nodes_host[1], and the value is returned
Finish ==
  /\ build.phase = "view"
  /\ root' = nodes[1]
  /\ build' = [build EXCEPT !.phase = "built"]
  /\ UNCHANGED <<params, matrix, nodes, writer, manip, reader>>

\* ---------------------------------------------------------------- writer side
\* MerkleTreeProver::commit, whatever was called before it
CommitCall ==
  /\ build.phase = "built"
  /\ wpc \in {"new", "committed"}
  /\ Len(proof) < MaxStream
  /\ proof' = write_pod_slice(proof, TopSlice(nodes, params.top_size))
  /\ wrng' = Rng_mix(wrng, CommittedDigest(root))
  /\ wpc' = "committed"
  /\ wcall' = [op |-> "commit", idx |-> 0, col |-> <<>>]
  /\ UNCHANGED <<prover, wpanic, wlog, wpath, manip, reader>>

\* MerkleTreeProver::root: the stored digest is returned
RootCall ==
  /\ build.phase = "built"
  /\ wpc \in {"new", "committed"}
  /\ wcall' = [op |-> "root", idx |-> 0, col |-> root]
  /\ UNCHANGED <<prover, proof, wrng, wpc, wpanic, wlog, wpath, manip, reader>>

\* MerkleTreeProver::commit as the run makes it: once, on the empty stream
Commit ==
  /\ build.phase = "built"
  /\ wpc = "new"
  /\ proof = <<>>
  /\ proof' = write_pod_slice(proof, TopSlice(nodes, params.top_size))
  /\ wrng' = Rng_mix(wrng, CommittedDigest(root))
  /\ wpc' = "committed"
  /\ wcall' = [op |-> "commit", idx |-> 0, col |-> <<>>]
  /\ UNCHANGED <<prover, wpanic, wlog, wpath, manip, reader>>

\* iop.rng.random_bits(log2_ceil(rows))
WDraw ==
  /\ wpc = "committed"
  /\ Len(wlog) < MaxOps
  /\ wlog' = Append(wlog, [op |-> "draw",
                           idx |-> Rng_random_bits(wrng, log2_ceil(params.row_size)),
                           col |-> <<>>])
  /\ wrng' = Rng_step(wrng)
  /\ UNCHANGED <<prover, proof, wpc, wpanic, wcall, wpath, manip, reader>>

\* MerkleTreeProver::prove(hal, iop, idx)
Prove(idx, unified) ==
  /\ build.phase = "built"
  /\ wpc \in {"new", "committed"}
  /\ Len(wlog) < MaxOps
  /\ IF ~RowAssert(idx, params.row_size)
       THEN /\ wpc' = "panicked"
            /\ wpanic' = AssertRowMsg
            /\ wcall' = [op |-> "prove", idx |-> idx, col |-> <<>>]
            /\ wpath' = <<>>
            /\ UNCHANGED <<proof, wlog>>
       ELSE IF ~ColumnInBounds(matrix, idx, params.col_size, params.row_size)
       THEN /\ wpc' = "panicked"
            /\ wpanic' = "index out of bounds"
            /\ wcall' = [op |-> "prove", idx |-> idx, col |-> <<>>]
            /\ wpath' = <<>>
            /\ UNCHANGED <<proof, wlog>>
       ELSE LET out == IF unified
                         THEN ViewColumn(matrix, idx, params.col_size, params.row_size)
                         ELSE gather_sample(matrix, idx, params.col_size, params.row_size)
            IN /\ proof' = ProveAppend(proof, out,
                                        SiblingPath(nodes, idx + params.row_size,
                                                    params.top_size))
               /\ wpath' = SiblingIndexes(idx + params.row_size, params.top_size)
               /\ wlog' = Append(wlog, [op |-> "prove", idx |-> idx, col |-> out])
               /\ wcall' = [op |-> "prove", idx |-> idx, col |-> out]
               /\ UNCHANGED <<wpc, wpanic>>
  /\ UNCHANGED <<prover, wrng, manip, reader>>

\* ReadIOP::new(&iop.proof) on the stream as written
HandOver ==
  /\ wpc = "committed"
  /\ wpc' = "done"
  /\ manip' = [kind |-> "none", pos |-> 0]
  /\ r_proof' = proof
  /\ rpc' = "start"
  /\ UNCHANGED <<prover, proof, wrng, wpanic, wlog, wcall, wpath, rpos, rrng, top, vroot, vfolds,
                 rlog, bad>>

\* the values one item of the stream may be altered to: the item with a bit
\* flipped and, for a digest, the all-zero digest
Alterations(it) ==
  {FlipItem(it)} \cup (IF IsDigestItem(it) /\ it # ZeroDigest THEN {ZeroDigest} ELSE {})

\* one item of the stream is altered before ReadIOP::new
Manipulate(manip_idx, item) ==
  /\ wpc = "committed"
  /\ manip_idx \in 1..Len(proof)
  /\ item \in Alterations(proof[manip_idx])
  /\ wpc' = "done"
  /\ manip' = [kind |-> "flip", pos |-> manip_idx]
  /\ r_proof' = [proof EXCEPT ![manip_idx] = item]
  /\ rpc' = "start"
  /\ UNCHANGED <<prover, proof, wrng, wpanic, wlog, wcall, wpath, rpos, rrng, top, vroot, vfolds,
                 rlog, bad>>

\* one item is added behind what commit and prove wrote, before ReadIOP::new
Inject(item) ==
  /\ wpc = "committed"
  /\ wpc' = "done"
  /\ manip' = [kind |-> "extra", pos |-> Len(proof) + 1]
  /\ r_proof' = Append(proof, item)
  /\ rpc' = "start"
  /\ UNCHANGED <<prover, proof, wrng, wpanic, wlog, wcall, wpath, rpos, rrng, top, vroot, vfolds,
                 rlog, bad>>

\* ---------------------------------------------------------------- reader side
\* MerkleTreeVerifier::new(&mut r_iop, rows, cols, queries), then
\* assert_eq!(verifier.root(), prover.root())
VerifierNew ==
  /\ rpc = "start"
  /\ IF ~TopReadable(r_proof, rpos, params)
       THEN /\ rpc' = "DecodeError"
            /\ UNCHANGED <<rpos, rrng, top, vroot, vfolds>>
       ELSE LET t == VerifierTop(r_proof, rpos, params)
            IN /\ top' = t
               /\ vroot' = t[1]
               /\ vfolds' = VerifierFolds(params)
               /\ rrng' = Rng_mix(rrng, t[1])
               /\ rpos' = rpos + params.top_size
               /\ rpc' = IF t[1] = root THEN "verify" ELSE "RootMismatch"
  /\ UNCHANGED <<prover, writer, manip, r_proof, rlog, bad>>

\* the next call the writer side made, which the reader side now mirrors
NextCall == wlog[Len(rlog) + 1]

\* r_iop.random_bits(log2_ceil(rows))
RDraw ==
  /\ rpc = "verify"
  /\ Len(rlog) < Len(wlog)
  /\ NextCall.op = "draw"
  /\ rlog' = Append(rlog, [op |-> "draw",
                           idx |-> Rng_random_bits(rrng, log2_ceil(params.row_size)),
                           col |-> <<>>])
  /\ rrng' = Rng_step(rrng)
  /\ UNCHANGED <<prover, writer, manip, r_proof, rpos, top, vroot, vfolds, rpc, bad>>

\* verifier.verify(&mut r_iop, r_idx).unwrap()
Verify ==
  /\ rpc = "verify"
  /\ Len(rlog) < Len(wlog)
  /\ NextCall.op = "prove"
  /\ LET v == verify(r_proof, rpos, top, params, NextCall.idx)
     IN /\ rpos' = v.pos
        /\ IF v.res = "Ok"
             THEN /\ rlog' = Append(rlog, [op |-> "verify", idx |-> NextCall.idx, col |-> v.col])
                  /\ UNCHANGED rpc
             ELSE /\ rpc' = v.res
                  /\ UNCHANGED rlog
  /\ UNCHANGED <<prover, writer, manip, r_proof, rrng, top, vroot, vfolds, bad>>

\* the bad query: verifier.verify(&mut r_iop, (r_idx + 1) % rows), then break
VerifyWrongRow ==
  /\ rpc = "verify"
  /\ Len(rlog) < Len(wlog)
  /\ NextCall.op = "prove"
  /\ params.row_size > 1
  /\ LET v == verify(r_proof, rpos, top, params, (NextCall.idx + 1) % params.row_size)
     IN /\ rpos' = v.pos
        /\ bad' = v.res
  /\ rpc' = "stopped"
  /\ UNCHANGED <<prover, writer, manip, r_proof, rrng, top, vroot, vfolds, rlog>>

\* r_iop.verify_complete()
VerifyComplete ==
  /\ rpc = "verify"
  /\ Len(rlog) = Len(wlog)
  /\ rpc' = IF rpos = Len(r_proof) THEN "complete" ELSE "incomplete"
  /\ UNCHANGED <<prover, writer, manip, r_proof, rpos, rrng, top, vroot, vfolds, rlog, bad>>

\* ---------------------------------------------------------------- specification
\* the run of possibly_bad_verify on the stream as written, and direct calls
Next ==
  \/ Commit
  \/ WDraw
  \/ \E idx \in 0..params.row_size : \E unified \in BOOLEAN : Prove(idx, unified)
  \/ HandOver
  \/ VerifierNew
  \/ RDraw
  \/ Verify
  \/ VerifyWrongRow
  \/ VerifyComplete

Spec == Init /\ [][Next]_vars

\* the run with manipulate_proof: the stream may be altered or extended
\* before the reader is built from it
NextManipulated ==
  \/ Commit
  \/ \E idx \in 0..params.row_size : \E unified \in BOOLEAN : Prove(idx, unified)
  \/ HandOver
  \/ \E manip_idx \in 1..Len(proof) :
       \E item \in Alterations(proof[manip_idx]) : Manipulate(manip_idx, item)
  \/ \E item \in {ElemItem(0), ZeroDigest} : Inject(item)
  \/ VerifierNew
  \/ Verify
  \/ VerifyComplete

SpecManipulated == Init /\ [][NextManipulated]_vars

\* the construction with its HAL calls taken apart, then commit and prove
NextBuild ==
  \/ \E k \in DOMAIN nodes : HashRow(k)
  \/ RowsDone
  \/ \E k \in DOMAIN nodes : FoldNode(k)
  \/ FoldDone
  \/ Finish
  \/ Commit
  \/ \E idx \in 0..params.row_size : \E unified \in BOOLEAN : Prove(idx, unified)

SpecBuild == InitBuild /\ [][NextBuild]_vars

\* the calls of the prover in any order
NextCalls ==
  \/ CommitCall
  \/ RootCall
  \/ \E idx \in 0..params.row_size : \E unified \in BOOLEAN : Prove(idx, unified)

SpecCalls == Init /\ [][NextCalls]_vars

\* ---------------------------------------------------------------- properties
\* column idx of the matrix: element i is matrix[idx + i * rows]
ColumnOf(idx) ==
  [i \in 1..params.col_size |-> matrix[idx + (i - 1) * params.row_size + 1]]

\* commit has been called on the transcript
Committed == wrng.pool # <<>>

\* the tree levels between the leaves and the top layer
Depth == log2_ceil(params.row_size) - log2_ceil(params.top_size)

\* C1: on the stream as written, every verify(idx) that mirrors a prove(idx)
\* succeeds and returns the column of the matrix for that index, element i
\* being matrix[idx + i * rows].
C1_RoundTrip ==
  manip.kind = "none" =>
    /\ rpc \notin {"InvalidProof", "DecodeError", "RootMismatch"}
    /\ \A k \in 1..Len(rlog) :
         wlog[k].op = "prove" =>
           /\ rlog[k].op = "verify"
           /\ rlog[k].idx = wlog[k].idx
           /\ rlog[k].col = ColumnOf(wlog[k].idx)
           /\ rlog[k].col = wlog[k].col

C1_Witness ==
  /\ rpc = "complete"
  /\ params.row_size = 4 /\ params.top_size = 2 /\ params.col_size = 2
  /\ Len(rlog) = 2
  /\ rlog[1].op = "verify" /\ rlog[2].op = "verify"
  /\ rlog[1].idx = 3 /\ rlog[2].idx = 3
  /\ matrix[1] # matrix[2]

\* C2 as stated: the verifier built from the stream as written has the
\* prover's root, and gets it by folding the top layer `layers` times, with
\* `layers` either the prover's loop count or log2(rows / top_size).
C2_Original ==
  (manip.kind = "none" /\ rpc \notin {"idle", "start"}) =>
    /\ vroot = root
    /\ (vfolds = params.layers \/ vfolds = Depth)

\* C2: the verifier built from the stream as written, with the same geometry,
\* has the prover's root; it gets it from the top_size digests read, folded
\* log2(top_size) times, and its top buffer equals the prover's nodes above
\* the top boundary.
C2_RootAgreement ==
  (manip.kind = "none" /\ rpc \notin {"idle", "start"}) =>
    /\ vroot = root
    /\ rpc # "RootMismatch"
    /\ Pow2(vfolds) = params.top_size
    /\ \A k \in 1..(2 * params.top_size - 1) : top[k] = nodes[k]

C2_Witness ==
  /\ manip.kind = "none"
  /\ rpc = "verify"
  /\ params.row_size = 4 /\ params.top_size = 2
  /\ vfolds = 1
  /\ vroot = root
  /\ root = HashPair(nodes[2], nodes[3])

\* the row the wrong-row verification was made on, and the row proved
ProvedRow == NextCall.idx

WrongRow == (NextCall.idx + 1) % params.row_size

C4_TamperDetected ==
  manip.kind = "flip" =>
    /\ rpc \in {"start", "verify", "RootMismatch", "InvalidProof"}
    /\ rpc = "verify" => Len(rlog) < Len(wlog)
    /\ manip.pos <= params.top_size => rpc # "verify"
    /\ rpc = "RootMismatch" => (vroot # root /\ manip.pos <= params.top_size)

C4_Witness ==
  /\ manip.kind = "flip"
  /\ rpc = "InvalidProof"
  /\ params.row_size = 4 /\ params.top_size = 2 /\ params.col_size = 2
  /\ Len(wlog) = 2
  /\ Len(rlog) = 1
  /\ IsDigestItem(proof[manip.pos])

\* C5: prove(idx) with idx >= rows ends in the assertion failure, appends
\* nothing to the transcript and returns no column.
C5_OutOfRangeAborts ==
  [][(wcall'.op = "prove" /\ wcall'.idx >= params.row_size /\ wpc # "panicked") =>
       /\ wpc' = "panicked"
       /\ wpanic' = AssertRowMsg
       /\ proof' = proof
       /\ wlog' = wlog
       /\ wcall'.col = <<>>]_vars

C5_Witness ==
  /\ wpc = "panicked"
  /\ wpanic = AssertRowMsg
  /\ wcall.op = "prove" /\ wcall.idx = params.row_size
  /\ Committed
  /\ Len(wlog) = 1 /\ wlog[1].op = "prove"
  /\ Len(proof) = params.top_size + params.col_size + Depth

IsPow2(x) == \E l \in 0..(MaxLogRows + 1) : x = Pow2(l)

\* C6 as stated: layers = log2(rows / top_size), so that
\* top_size * 2^layers = rows.
C6_Original ==
  /\ params.top_size <= params.row_size
  /\ params.top_size * Pow2(params.layers) = params.row_size

\* C6: top_size is the smallest power of two >= min(queries, rows) and is at
\* most rows; layers = log2(rows), so that the node buffer of 2 * rows digests
\* has size 2^(layers + 1); the top layer lies log2(rows / top_size) levels
\* above the leaves. rows = 1024 and queries = 50 give top_size = 64 and
\* layers = 10.
C6_Geometry ==
  /\ IsPow2(params.top_size)
  /\ params.top_size >= Min(params.queries, params.row_size)
  /\ params.top_size > 1 => params.top_size \div 2 < Min(params.queries, params.row_size)
  /\ params.top_size <= params.row_size
  /\ Pow2(params.layers) = params.row_size
  /\ DOMAIN nodes = 0..(Pow2(params.layers + 1) - 1)
  /\ params.top_size * Pow2(Depth) = params.row_size
  /\ Depth <= params.layers
  /\ TopSizeOf(1024, 50) = 64
  /\ LayersOf(1024) = 10

C6_Witness ==
  /\ params.row_size = 4 /\ params.queries = 2
  /\ params.top_size = 2 /\ params.layers = 2
  /\ wpc = "committed"

\* the number of prove entries of the writer's log
RECURSIVE CountProves(_)
CountProves(log) ==
  IF log = <<>> THEN 0
  ELSE (IF log[Len(log)].op = "prove" THEN 1 ELSE 0) + CountProves(SubSeq(log, 1, Len(log) - 1))

\* the items of the stream behind what commit wrote
ProofBase == IF Committed THEN params.top_size ELSE 0

\* C7: commit appends exactly the top_size digests nodes[top_size ..
\* 2 * top_size); each prove(idx) with idx < rows appends exactly cols field
\* elements followed by exactly one digest per level between the leaves and
\* the top layer, the same count for every idx, none when top_size = rows.
C7_ProofShape ==
  LET seg == params.col_size + Depth
      n == CountProves(wlog)
  IN /\ Len(proof) = ProofBase + n * seg
     /\ Committed => \A i \in 1..params.top_size : proof[i] = nodes[params.top_size + i - 1]
     /\ \A j \in 1..n : \A i \in 1..seg :
          LET it == proof[ProofBase + (j - 1) * seg + i]
          IN IF i <= params.col_size THEN IsElemItem(it) ELSE IsDigestItem(it)
     /\ params.top_size = params.row_size => Depth = 0
     /\ (wcall.op = "prove" /\ wpc # "panicked") =>
          /\ n >= 1
          /\ \A i \in 1..params.col_size :
               proof[Len(proof) - seg + i] = ElemItem(wcall.col[i])

C7_Witness ==
  /\ Committed
  /\ params.row_size = 4 /\ params.top_size = 1 /\ params.col_size = 2
  /\ Len(wlog) = 2
  /\ wlog[1].op = "prove" /\ wlog[2].op = "prove"
  /\ wlog[1].idx = 0 /\ wlog[2].idx = 3
  /\ Len(proof) = 9

\* C8: on the stream as written the reader's k-th draw equals the writer's
\* k-th draw, with the draws interleaved with prove / verify in the same
\* order; the root is what both sides fed into the random oracle.
C8_ChallengeAgreement ==
  /\ Committed => wrng.pool = root
  /\ (manip.kind = "none" /\ rpc \notin {"idle", "start"}) =>
       /\ rrng.pool = vroot
       /\ rrng.pool = wrng.pool
       /\ \A k \in 1..Len(rlog) :
            wlog[k].op = "draw" => (rlog[k].op = "draw" /\ rlog[k].idx = wlog[k].idx)

C8_Witness ==
  /\ manip.kind = "none"
  /\ rpc = "complete"
  /\ params.row_size = 4
  /\ Len(rlog) = 2
  /\ rlog[1].op = "draw" /\ rlog[2].op = "draw"
  /\ rlog[1].idx # rlog[2].idx
  /\ rlog[2].idx = wlog[2].idx

\* C9: on the stream as written, once every proof has been verified the
\* reader has consumed the whole stream and verify_complete succeeds; with an
\* item behind what commit and prove wrote, verify_complete fails.
C9_CompleteConsumption ==
  /\ (manip.kind = "none" /\ rpc = "verify" /\ Len(rlog) = Len(wlog)) =>
       rpos = Len(r_proof)
  /\ manip.kind = "none" => rpc \notin {"incomplete", "InvalidProof", "DecodeError"}
  /\ (manip.kind = "none" /\ rpc = "complete") => rpos = Len(proof)
  /\ manip.kind = "extra" => rpc # "complete"
  /\ (manip.kind = "extra" /\ rpc = "incomplete") => rpos = Len(proof)

C9_Witness ==
  /\ manip.kind = "extra"
  /\ rpc = "incomplete"
  /\ params.row_size = 4 /\ params.top_size = 2
  /\ Len(rlog) = 2
  /\ rpos = Len(r_proof) - 1

\* C10: after MerkleTreeProver::new every index in [rows, 2 * rows) holds the
\* hash of its matrix column, every index i in [1, rows) holds
\* hash(node[2i], node[2i + 1]), and root = node[1], for every geometry,
\* queries > 1 included.
C10_NodeArray ==
  /\ DOMAIN nodes = 0..(2 * params.row_size - 1)
  /\ \A k \in params.row_size..(2 * params.row_size - 1) :
       nodes[k] = HashElemSlice(ColumnOf(k - params.row_size))
  /\ \A i \in 1..(params.row_size - 1) :
       nodes[i] = HashPair(nodes[2 * i], nodes[2 * i + 1])
  /\ root = nodes[1]

C10_Witness ==
  /\ wpc = "new"
  /\ params.row_size = 4 /\ params.queries = 2 /\ params.top_size = 2
  /\ params.col_size = 2
  /\ nodes[2] = HashPair(nodes[4], nodes[5])
  /\ nodes[4] # nodes[5]
  /\ root = HashPair(nodes[2], nodes[3])

\* index XOR 1: the other child of the same parent
XorOne(i) == IF i % 2 = 0 THEN i + 1 ELSE i - 1

\* C11: prove(idx) starts at heap index idx + rows; each step writes the digest
\* at (current index XOR 1) and moves to current index / 2, and the walk stops
\* as soon as the current index is < 2 * top_size; every index written lies in
\* [2 * top_size, 2 * rows), inside the node array and below the top layer.
C11_SiblingPath ==
  (wcall.op = "prove" /\ wpc # "panicked") =>
    LET start == wcall.idx + params.row_size
        n == Len(wpath)
    IN /\ n = Depth
       /\ \A l \in 1..n :
            LET cur == start \div Pow2(l - 1)
            IN /\ cur >= 2 * params.top_size
               /\ wpath[l] = XorOne(cur)
               /\ wpath[l] >= 2 * params.top_size
               /\ wpath[l] < 2 * params.row_size
               /\ wpath[l] \in DOMAIN nodes
               /\ proof[Len(proof) - n + l] = nodes[wpath[l]]
       /\ start \div Pow2(n) < 2 * params.top_size
       /\ start \div Pow2(n) >= params.top_size

C11_Witness ==
  /\ wcall.op = "prove" /\ wpc = "committed"
  /\ params.row_size = 4 /\ params.top_size = 1
  /\ wcall.idx = 2
  /\ wpath = <<7, 2>>
  /\ nodes[7] # nodes[2]
  /\ Len(wlog) = 2

\* the layer of heap index k: 0 for the root, log2(rows) for the leaves
LayerOfNode(k) == log2_ceil(k + 1) - 1

\* the value the sequential construction returns for the same matrix
Sequential ==
  MerkleTreeProver_new(matrix, params.row_size, params.col_size, params.queries)

\* C12: during the tree build no node of a layer is written before every node
\* of the layer below it is written, no node is written twice and at the end
\* every node was written once, and whatever the order of the writes inside a
\* call, the node array, the root and what commit and prove write are those of
\* the sequential build.
C12_LayerBarrier ==
  /\ \A k \in DOMAIN nodes :
       /\ build.writes[k] <= 1
       /\ build.writes[k] = 0 => nodes[k] = ZeroDigest
       /\ build.writes[k] = 1 => nodes[k] = Sequential.nodes[k]
       /\ (build.writes[k] = 1 /\ k < params.row_size) =>
            \A j \in FoldRange(LayerOfNode(k) + 1) : build.writes[j] = 1
  /\ build.phase = "built" =>
       /\ build = BuildReturned(params.row_size, params.layers)
       /\ nodes = Sequential.nodes
       /\ root = Sequential.root
       /\ Committed =>
            SubSeq(proof, 1, params.top_size) =
              TopSlice(Sequential.nodes, params.top_size)
       /\ (wcall.op = "prove" /\ wpc # "panicked") =>
            LET n == params.col_size + Len(wpath)
            IN SubSeq(proof, Len(proof) - n + 1, Len(proof)) =
                 ProveAppend(<<>>, ColumnOf(wcall.idx),
                             SiblingPath(Sequential.nodes,
                                         wcall.idx + params.row_size,
                                         params.top_size))

\* a build of four rows in which the leaves were written last-first and the
\* right node of the middle layer before the left one
C12_Witness ==
  /\ params.row_size = 4
  /\ build.phase = "fold" /\ build.step = 1
  /\ build.pending = {2}
  /\ build.writes[3] = 1 /\ build.writes[2] = 0
  /\ nodes[3] # ZeroDigest
  /\ nodes[6] # nodes[7]

\* C13: for every idx < rows, prove on the unified-memory path and prove on
\* the gather path both return, and both write to the transcript, the column
\* of cols elements whose element i is matrix[idx + i * rows]; what is
\* returned is what is written.
C13_ColumnExtraction ==
  [][\A idx \in 0..(params.row_size - 1) : \A unified \in BOOLEAN :
       Prove(idx, unified) =>
         /\ wpc' = wpc
         /\ Len(wcall'.col) = params.col_size
         /\ \A i \in 0..(params.col_size - 1) :
              wcall'.col[i + 1] = matrix[idx + i * params.row_size + 1]
         /\ SubSeq(proof', Len(proof) + 1, Len(proof) + params.col_size) =
              [i \in 1..params.col_size |-> ElemItem(wcall'.col[i])]
         /\ ViewColumn(matrix, idx, params.col_size, params.row_size) =
              gather_sample(matrix, idx, params.col_size, params.row_size)]_vars

C13_Witness ==
  /\ wcall.op = "prove" /\ wpc = "committed"
  /\ params.row_size = 4 /\ params.col_size = 2
  /\ wcall.idx = 3
  /\ wcall.col = <<4, 0>>
  /\ matrix[4] = 4 /\ matrix[8] = 0
  /\ proof[Len(proof) - Len(wpath) - 1] = ElemItem(4)
  /\ proof[Len(proof) - Len(wpath)] = ElemItem(0)

\* C14: after construction, every commit, root and prove call, in any order,
\* leaves the params, the matrix, the node array and the root as they were,
\* and the transcript before the call is a prefix of the transcript after it.
C14_Frame ==
  [][/\ params' = params
     /\ matrix' = matrix
     /\ nodes' = nodes
     /\ root' = root
     /\ Len(proof) <= Len(proof')
     /\ SubSeq(proof', 1, Len(proof)) = proof]_vars

\* commit called after two proves, then root: the stream holds the two proofs
\* followed by the top layer
C14_Witness ==
  /\ wcall.op = "root" /\ wcall.col = nodes[1]
  /\ params.row_size = 4 /\ params.col_size = 2 /\ params.top_size = 2
  /\ Len(wlog) = 2 /\ wlog[1].idx # wlog[2].idx
  /\ Committed
  /\ Len(proof) = 2 * (params.col_size + Depth) + params.top_size
  /\ SubSeq(proof, 1, params.col_size) =
       [i \in 1..params.col_size |-> ElemItem(ColumnOf(wlog[1].idx)[i])]
  /\ SubSeq(proof, Len(proof) - 1, Len(proof)) = TopSlice(nodes, params.top_size)
  /\ nodes = Sequential.nodes

====
